---- MODULE Spec2Model ----
(***************************************************************************)
(* A model of python/paddle/tensor/search.py: the four layer functions     *)
(* argmax, sort, where and index_sample, which validate their arguments,   *)
(* create output Variables and append operator nodes to the program.       *)
(*                                                                         *)
(* Spec        the graph-construction layer (the code of search.py): the   *)
(*             caller creates Variables, then makes one layer call.        *)
(* KernelSpec  the arg_max node built by argmax, executed on tensor data.  *)
(* DataSpec    the nodes built by where and index_sample, executed on      *)
(*             tensor data.                                                *)
(***************************************************************************)
EXTENDS Integers, Sequences, FiniteSets, TLC

\* ---------------------------------------------------------------- bounds
\* Variables the caller creates before calling the layer (fluid.data).
MaxData == 1
\* Largest dimension size of a symbolic tensor's shape.
MaxDim == 3
\* Rows, columns and largest element of a tensor fed to a kernel.
MaxRows == 2
MaxLen == 2
MaxVal == 1

VARIABLES
    mode,    \* "static" or "dygraph": what in_dygraph_mode() answers
    vars,    \* the Variables of the program, in creation order
    ops,     \* the operator nodes of the program, in append order
    call,    \* the layer call made: its arguments, outcome and returned Variables
    krun     \* the last kernel execution: inputs, node attributes, outcome

allvars == <<mode, vars, ops, call, krun>>

\* ------------------------------------------------------------- data types
\* core.VarDesc.VarType members are "BOOL", "INT16", "INT32", "INT64",
\* "FP32" and "FP64"; convert_dtype gives the name of one, and
\* convert_np_dtype_to_dtype_ the member a name stands for.
convert_dtype(vt) ==
    CASE vt = "BOOL"  -> "bool"
      [] vt = "INT16" -> "int16"
      [] vt = "INT32" -> "int32"
      [] vt = "INT64" -> "int64"
      [] vt = "FP32"  -> "float32"
      [] vt = "FP64"  -> "float64"

convert_np_dtype_to_dtype_(dtype) ==
    CASE dtype = "bool"    -> "BOOL"
      [] dtype = "int16"   -> "INT16"
      [] dtype = "int32"   -> "INT32"
      [] dtype = "int64"   -> "INT64"
      [] dtype = "float32" -> "FP32"
      [] dtype = "float64" -> "FP64"

\* The dtypes and shapes of the tensors the caller passes in.
InDTypes == {"BOOL", "INT32", "FP32"}
Shapes == {<<n>> : n \in 1..MaxDim}
Tensors == [dtype : InDTypes, shape : Shapes]

\* An absent optional argument is <<>>, a given one <<value>>.
Opt(S) == {<<>>} \cup {<<x>> : x \in S}

\* ------------------------------------------------------------ LayerHelper
Graph == [vars |-> vars, ops |-> ops]

\* helper.create_variable_for_type_inference(dtype, stop_gradient): a new
\* Variable at the end of the program; sg_sets counts the assignments made
\* to its stop_gradient after creation.
create_variable_for_type_inference(G, dtype, stop_gradient) ==
    [G EXCEPT !.vars = Append(@, [dtype |-> dtype,
                                  stop_gradient |-> stop_gradient,
                                  sg_sets |-> 0])]

\* helper.append_op(type, inputs, outputs, attrs)
append_op(G, type, inputs, outputs, attrs) ==
    [G EXCEPT !.ops = Append(@, [type |-> type, inputs |-> inputs,
                                 outputs |-> outputs, attrs |-> attrs])]

\* v.stop_gradient = value, on the Variable at index v
set_stop_gradient(G, v, value) ==
    [G EXCEPT !.vars[v].stop_gradient = value,
              !.vars[v].sg_sets = @ + 1]

\* check_dtype / check_variable_and_dtype: TRUE when the check passes
check_dtype(dtype, expected) == dtype \in expected

check_variable_and_dtype(x, expected) == convert_dtype(x.dtype) \in expected

\* ------------------------------------------------------------------ Init
Idle == [op |-> "none", status |-> "ok", ret |-> <<>>]

Init ==
    /\ mode \in {"static", "dygraph"}
    /\ vars = <<>>
    /\ ops = <<>>
    /\ call = Idle
    /\ krun = [op |-> "none"]

\* fluid.data(name, shape, dtype): the caller creates a Variable it can
\* later hand in as out.
data(dtype, stop_gradient) ==
    /\ Len(vars) < MaxData
    /\ call = Idle
    /\ vars' = Append(vars, [dtype |-> dtype, stop_gradient |-> stop_gradient,
                             sg_sets |-> 0])
    /\ UNCHANGED <<mode, ops, call, krun>>

\* The Variables the caller can pass as out.
OutArgs == {<<>>} \cup {<<i>> : i \in 1..Len(vars)}

\* ---------------------------------------------------------------- argmax
ArgmaxDTypeArgs == {"None", "int32", "int64", "float32"}
AxisArgs == Opt({-1, 0})

\* the dtype check of argmax: TRUE when the call may go on
argmax_dtype_ok(dtype) ==
    dtype = "None" \/ check_dtype(dtype, {"int32", "int64"})

\* a variant of argmax_var_dtype whose default is the 32-bit index type
argmax_var_dtype_int32_default(dtype) ==
    IF dtype # "None" THEN convert_np_dtype_to_dtype_(dtype) ELSE "INT32"

\* var_dtype, the dtype of the Variable argmax creates
argmax_var_dtype(dtype) ==
    IF dtype # "None" THEN convert_np_dtype_to_dtype_(dtype) ELSE "INT64"

\* a variant of argmax_attrs whose default axis is the first one
argmax_attrs_axis0_default(axis, dtype, keepdims) ==
    LET a == IF axis = <<>> THEN 0 ELSE axis[1]
    IN  IF dtype # "None"
        THEN [dtype |-> convert_np_dtype_to_dtype_(dtype),
              keepdims |-> keepdims, axis |-> a]
        ELSE [keepdims |-> keepdims, axis |-> a]

\* attrs, the attributes of the arg_max node
argmax_attrs(axis, dtype, keepdims) ==
    LET a == IF axis = <<>> THEN -1 ELSE axis[1]
    IN  IF dtype # "None"
        THEN [dtype |-> convert_np_dtype_to_dtype_(dtype),
              keepdims |-> keepdims, axis |-> a]
        ELSE [keepdims |-> keepdims, axis |-> a]

\* the body of argmax after the dtype check
argmax_build(G, input, axis, dtype, out, keepdims) ==
    LET G1 == IF out = <<>>
              THEN create_variable_for_type_inference(G, argmax_var_dtype(dtype), FALSE)
              ELSE G
        o  == IF out = <<>> THEN Len(G1.vars) ELSE out[1]
        G2 == append_op(G1, "arg_max", [X |-> input], [Out |-> <<o>>],
                        argmax_attrs(axis, dtype, keepdims))
    IN  [g |-> set_stop_gradient(G2, o, TRUE), ret |-> <<o>>]

argmax(input, axis, dtype, out, keepdims) ==
    /\ call = Idle
    /\ LET args == [input |-> input, axis |-> axis, dtype |-> dtype,
                    out |-> out, keepdims |-> keepdims]
       IN  IF ~argmax_dtype_ok(dtype)
           THEN /\ call' = [op |-> "argmax", args |-> args,
                            status |-> "UnsupportedDtype", ret |-> <<>>]
                /\ UNCHANGED <<vars, ops>>
           ELSE LET r == argmax_build(Graph, input, axis, dtype, out, keepdims)
                IN  /\ vars' = r.g.vars
                    /\ ops' = r.g.ops
                    /\ call' = [op |-> "argmax", args |-> args,
                                status |-> "ok", ret |-> r.ret]
    /\ UNCHANGED <<mode, krun>>

\* ------------------------------------------------------------------ sort
\* the axis and descending parameters with their defaults
sort_axis(axis) == IF axis = <<>> THEN -1 ELSE axis[1]

sort_descending(descending) == IF descending = <<>> THEN FALSE ELSE descending[1]

\* a variant of sort_out that also marks a caller's out as differentiable
sort_out_forcing_flag(G, input, out) ==
    IF out = <<>>
    THEN LET G1 == create_variable_for_type_inference(G, input.dtype, FALSE)
         IN  [g |-> G1, v |-> Len(G1.vars)]
    ELSE [g |-> set_stop_gradient(G, out[1], FALSE), v |-> out[1]]

\* the Variable that receives the sorted values
sort_out(G, input, out) ==
    IF out = <<>>
    THEN LET G1 == create_variable_for_type_inference(G, input.dtype, FALSE)
         IN  [g |-> G1, v |-> Len(G1.vars)]
    ELSE [g |-> G, v |-> out[1]]

sort_build(G, input, axis, descending, out) ==
    LET o   == sort_out(G, input, out)
        G2  == create_variable_for_type_inference(o.g, "INT64", TRUE)
        ids == Len(G2.vars)
        G3  == append_op(G2, "argsort", [X |-> input],
                         [Out |-> <<o.v>>, Indices |-> <<ids>>],
                         [axis |-> sort_axis(axis),
                          descending |-> sort_descending(descending)])
    IN  [g |-> G3, ret |-> <<o.v, ids>>]

sort(input, axis, descending, out) ==
    /\ call = Idle
    /\ LET args == [input |-> input, axis |-> axis, descending |-> descending,
                    out |-> out]
           r == sort_build(Graph, input, axis, descending, out)
       IN  /\ vars' = r.g.vars
           /\ ops' = r.g.ops
           /\ call' = [op |-> "sort", args |-> args, status |-> "ok",
                       ret |-> r.ret]
    /\ UNCHANGED <<mode, krun>>

\* ----------------------------------------------------------------- where
WhereDTypes == {"float32", "float64", "int32", "int64"}

\* a variant of where_checks that forgets Condition
where_checks_without_condition(Condition, X, Y) ==
    /\ check_variable_and_dtype(X, WhereDTypes)
    /\ check_variable_and_dtype(Y, WhereDTypes)

\* the three check_variable_and_dtype calls of where: TRUE when all pass
where_checks(Condition, X, Y) ==
    /\ check_variable_and_dtype(Condition, {"bool"})
    /\ check_variable_and_dtype(X, WhereDTypes)
    /\ check_variable_and_dtype(Y, WhereDTypes)

\* the branch where takes: X_shape == Y_shape
where_path(Condition, X, Y) ==
    IF X.shape = Y.shape THEN "direct" ELSE "broadcast"

\* Standard broadcasting of two shapes, aligned at their last dimension.
Max2(a, b) == IF a >= b THEN a ELSE b

DimAt(s, rank, i) == IF i > rank - Len(s) THEN s[i - (rank - Len(s))] ELSE 1

Broadcastable(s, t) ==
    LET rank == Max2(Len(s), Len(t))
    IN  \A i \in 1..rank :
            \/ DimAt(s, rank, i) = DimAt(t, rank, i)
            \/ DimAt(s, rank, i) = 1
            \/ DimAt(t, rank, i) = 1

BroadcastShape(s, t) ==
    LET rank == Max2(Len(s), Len(t))
    IN  [i \in 1..rank |-> Max2(DimAt(s, rank, i), DimAt(t, rank, i))]

\* A layer of fluid.layers that takes tensors and returns a new one: it
\* creates its output Variable and appends its node.
unary_layer(G, type, x, out_dtype, attrs) ==
    LET G1 == create_variable_for_type_inference(G, out_dtype, FALSE)
        v  == Len(G1.vars)
    IN  [g |-> append_op(G1, type, [X |-> x], [Out |-> <<v>>], attrs),
         t |-> [dtype |-> out_dtype, shape |-> x.shape],
         v |-> v, err |-> "ok"]

cast(G, x, dtype) == unary_layer(G, "cast", x, dtype, [out_dtype |-> dtype])

logical_not(G, x) == unary_layer(G, "logical_not", x, x.dtype, [none |-> TRUE])

\* layers.elementwise_mul / layers.elementwise_add: refuses operands whose
\* shapes do not broadcast, and then leaves the program as it found it.
elementwise(G, type, x, y) ==
    IF ~Broadcastable(x.shape, y.shape)
    THEN [g |-> G, t |-> x, v |-> 0, err |-> "ShapeError"]
    ELSE LET G1 == create_variable_for_type_inference(G, x.dtype, FALSE)
             v  == Len(G1.vars)
         IN  [g |-> append_op(G1, type, [X |-> x, Y |-> y], [Out |-> <<v>>],
                              [axis |-> -1]),
              t |-> [dtype |-> x.dtype,
                     shape |-> BroadcastShape(x.shape, y.shape)],
              v |-> v, err |-> "ok"]

\* the where node of the equal-shape branch: core.ops.where in dygraph
\* mode, helper.append_op(type='where') otherwise; the output takes the
\* dtype of the value inputs (helper.input_dtype())
where_direct(G, Condition, X, Y) ==
    LET G1 == create_variable_for_type_inference(G, X.dtype, FALSE)
        v  == Len(G1.vars)
    IN  [g |-> append_op(G1, "where",
                         [Condition |-> Condition, X |-> X, Y |-> Y],
                         [Out |-> <<v>>], [none |-> TRUE]),
         v |-> v, err |-> "ok"]

\* the else branch: X * cast(Condition) + Y * cast(not Condition), one
\* layer call after the other; the first that fails ends the call
where_broadcast(G, Condition, X, Y) ==
    LET cond_int     == cast(G, Condition, X.dtype)
        not_cond     == logical_not(cond_int.g, Condition)
        cond_not_int == cast(not_cond.g, not_cond.t, X.dtype)
        out1         == elementwise(cond_not_int.g, "elementwise_mul", X, cond_int.t)
        out2         == IF out1.err # "ok" THEN out1
                        ELSE elementwise(out1.g, "elementwise_mul", Y, cond_not_int.t)
    IN  IF out2.err # "ok" THEN out2
        ELSE elementwise(out2.g, "elementwise_add", out1.t, out2.t)

where(Condition, X, Y) ==
    /\ call = Idle
    /\ LET args == [Condition |-> Condition, X |-> X, Y |-> Y]
       IN  IF mode # "dygraph" /\ ~where_checks(Condition, X, Y)
           THEN /\ call' = [op |-> "where", args |-> args, path |-> "none",
                            status |-> "DtypeMismatch", ret |-> <<>>]
                /\ UNCHANGED <<vars, ops>>
           ELSE LET path == where_path(Condition, X, Y)
                    r == IF path = "direct"
                         THEN where_direct(Graph, Condition, X, Y)
                         ELSE where_broadcast(Graph, Condition, X, Y)
                IN  /\ vars' = r.g.vars
                    /\ ops' = r.g.ops
                    /\ call' = [op |-> "where", args |-> args, path |-> path,
                                status |-> r.err,
                                ret |-> IF r.err = "ok" THEN <<r.v>> ELSE <<>>]
    /\ UNCHANGED <<mode, krun>>

\* ---------------------------------------------------------- index_sample
\* x and index are 2-D: (N, C) and (N', K)
Tensors2 == [dtype : InDTypes, shape : {<<n, MaxLen>> : n \in 1..MaxRows}]

\* the two check_variable_and_dtype calls of index_sample
index_sample_checks(x, index) ==
    /\ check_variable_and_dtype(x, {"float32", "float64", "int32", "int64"})
    /\ check_variable_and_dtype(index, {"int32", "int64"})

index_sample_build(G, x, index) ==
    LET G1 == create_variable_for_type_inference(G, x.dtype, FALSE)
        v  == Len(G1.vars)
    IN  [g |-> append_op(G1, "index_sample", [X |-> x, Index |-> index],
                         [Out |-> <<v>>], [none |-> TRUE]),
         ret |-> <<v>>]

index_sample(x, index) ==
    /\ call = Idle
    /\ LET args == [x |-> x, index |-> index]
       IN  IF ~index_sample_checks(x, index)
           THEN /\ call' = [op |-> "index_sample", args |-> args,
                            status |-> "DtypeMismatch", ret |-> <<>>]
                /\ UNCHANGED <<vars, ops>>
           ELSE LET r == index_sample_build(Graph, x, index)
                IN  /\ vars' = r.g.vars
                    /\ ops' = r.g.ops
                    /\ call' = [op |-> "index_sample", args |-> args,
                                status |-> "ok", ret |-> r.ret]
    /\ UNCHANGED <<mode, krun>>

Next ==
    \/ \E dt \in {"INT32", "INT64", "FP32"}, sg \in BOOLEAN : data(dt, sg)
    \/ /\ call = Idle
       /\ \E input \in Tensors, axis \in AxisArgs, dtype \in ArgmaxDTypeArgs,
             out \in OutArgs, keepdims \in BOOLEAN :
               argmax(input, axis, dtype, out, keepdims)
    \/ /\ call = Idle
       /\ \E input \in Tensors, axis \in AxisArgs, descending \in Opt(BOOLEAN),
             out \in OutArgs :
               sort(input, axis, descending, out)
    \/ /\ call = Idle
       /\ \E Condition \in Tensors, X \in Tensors, Y \in Tensors :
               where(Condition, X, Y)
    \/ /\ call = Idle
       /\ \E x \in Tensors2, index \in Tensors2 : index_sample(x, index)

Spec == Init /\ [][Next]_allvars

\* =================================================== execution of the nodes
\* The kernels behind the nodes are not part of search.py; they are
\* modelled from the specification (sections 3 and 4).

\* ------------------------------------------------------------ Axis Reducer
Rank(T) == 2

Rows(T) == Len(T)

Cols(T) == Len(T[1])

NormalizeAxis(axis, rank) == IF axis < 0 THEN axis + rank ELSE axis

\* The number of fibers along a normalized axis, and the j-th of them.
NumFibers(T, a) == IF a = 0 THEN Cols(T) ELSE Rows(T)

Fiber(T, a, j) == IF a = 0 THEN [i \in 1..Rows(T) |-> T[i][j]] ELSE T[j]

\* ----------------------------------------------------------- ArgMax Kernel
\* Left-to-right scan keeping the index of the largest value seen so far;
\* an equal value does not replace it.
RECURSIVE ArgMaxFrom(_, _, _)
ArgMaxFrom(f, i, best) ==
    IF i > Len(f) THEN best
    ELSE ArgMaxFrom(f, i + 1, IF f[i] > f[best] THEN i ELSE best)

ArgMaxScan(f) == ArgMaxFrom(f, 2, 1) - 1

ArgMaxKernel(T, attrs) ==
    LET a == NormalizeAxis(attrs.axis, Rank(T))
    IN  IF a \notin 0..(Rank(T) - 1)
        THEN [status |-> "InvalidAxis", out |-> <<>>]
        ELSE LET idx == [j \in 1..NumFibers(T, a) |-> ArgMaxScan(Fiber(T, a, j))]
             IN  [status |-> "ok",
                  out |-> IF ~attrs.keepdims THEN idx
                          ELSE IF a = 0 THEN <<idx>>
                          ELSE [j \in 1..Len(idx) |-> <<idx[j]>>]]

\* Tensors of rank 2 fed to a kernel, as sequences of rows.
Matrices(vals) ==
    UNION {[1..r -> [1..c -> vals]] : r \in 1..MaxRows, c \in 1..MaxLen}

KernelAxisArgs == Opt(-3..2)

\* argmax builds the arg_max node, which then runs on the tensor T
run_argmax(T, axis, keepdims) ==
    /\ krun.op = "none"
    /\ LET attrs == argmax_attrs(axis, "None", keepdims)
           r == ArgMaxKernel(T, attrs)
       IN  krun' = [op |-> "argmax", T |-> T, axis |-> axis,
                    keepdims |-> keepdims, attrs |-> attrs,
                    status |-> r.status, out |-> r.out]
    /\ UNCHANGED <<mode, vars, ops, call>>

\* Tensors hold data in dygraph mode.
KernelInit == Init /\ mode = "dygraph"

KernelNext ==
    /\ krun.op = "none"
    /\ \E T \in Matrices(0..MaxVal), axis \in KernelAxisArgs, keepdims \in BOOLEAN :
          run_argmax(T, axis, keepdims)

KernelSpec == KernelInit /\ [][KernelNext]_allvars

\* ----------------------------------------------------------- Select Kernel
\* An element is a finite number, +infinity or NaN; the integer dtypes hold
\* finite numbers only.
Num(n) == [k |-> "num", n |-> n]

Inf == [k |-> "inf", n |-> 0]

NaN == [k |-> "nan", n |-> 0]

Elements(dtype) ==
    IF dtype = "BOOL" THEN BOOLEAN
    ELSE IF dtype \in {"FP32", "FP64"} THEN {Num(n) : n \in 0..MaxVal} \cup {Inf, NaN}
    ELSE {Num(n) : n \in 0..MaxVal}

\* IEEE 754 product and sum on these elements
Mul(a, b) ==
    IF a.k = "nan" \/ b.k = "nan" THEN NaN
    ELSE IF a.k = "inf" \/ b.k = "inf"
         THEN (IF a = Num(0) \/ b = Num(0) THEN NaN ELSE Inf)
    ELSE Num(a.n * b.n)

Add(a, b) ==
    IF a.k = "nan" \/ b.k = "nan" THEN NaN
    ELSE IF a.k = "inf" \/ b.k = "inf" THEN Inf
    ELSE Num(a.n + b.n)

\* cast of a boolean to a numeric dtype
CastBool(b) == IF b THEN Num(1) ELSE Num(0)

\* element i of a vector broadcast to length n
At(v, n, i) == IF Len(v) = n THEN v[i] ELSE v[1]

\* output[i] = X[i] if Condition[i] else Y[i]
WhereSelect(C, X, Y) == [i \in 1..Len(X) |-> IF C[i] THEN X[i] ELSE Y[i]]

\* X * cast(Condition) + Y * cast(not Condition), with broadcasting
WhereDecomp(C, X, Y) ==
    LET cond_int     == [i \in 1..Len(C) |-> CastBool(C[i])]
        cond_not_int == [i \in 1..Len(C) |-> CastBool(~C[i])]
        n1   == Max2(Len(X), Len(C))
        out1 == [i \in 1..n1 |-> Mul(At(X, n1, i), At(cond_int, n1, i))]
        n2   == Max2(Len(Y), Len(C))
        out2 == [i \in 1..n2 |-> Mul(At(Y, n2, i), At(cond_not_int, n2, i))]
        n    == Max2(n1, n2)
    IN  [i \in 1..n |-> Add(At(out1, n, i), At(out2, n, i))]

Vectors(vals) == UNION {[1..n -> vals] : n \in 1..MaxLen}

DataTensors(dtype) == [dtype : {dtype}, data : Vectors(Elements(dtype))]

Desc(t) == [dtype |-> t.dtype, shape |-> <<Len(t.data)>>]

\* where in dygraph mode on tensors that hold data: the branch is chosen
\* as in where, and the nodes of the branch run at once; operands that
\* cannot be combined elementwise are a ShapeError
run_where(Condition, X, Y) ==
    /\ krun.op = "none"
    /\ LET path == where_path(Desc(Condition), Desc(X), Desc(Y))
           c == Condition.data
           x == X.data
           y == Y.data
           ok == IF path = "direct" THEN Len(c) = Len(x)
                 ELSE /\ Broadcastable(<<Len(x)>>, <<Len(c)>>)
                      /\ Broadcastable(<<Len(y)>>, <<Len(c)>>)
                      /\ Broadcastable(<<Len(x)>>, <<Len(y)>>)
       IN  krun' = [op |-> "where", Condition |-> Condition, X |-> X, Y |-> Y,
                    path |-> path,
                    status |-> IF ok THEN "ok" ELSE "ShapeError",
                    out |-> IF ~ok THEN <<>>
                            ELSE IF path = "direct" THEN WhereSelect(c, x, y)
                            ELSE WhereDecomp(c, x, y)]
    /\ UNCHANGED <<mode, vars, ops, call>>

\* ----------------------------------------------------------- Gather Kernel
\* The inputs the kernel can gather from: the row counts agree and every
\* index names a column of x.
IndexSampleValid(x, index) ==
    /\ Rows(index) = Rows(x)
    /\ \A n \in 1..Rows(index), k \in 1..Cols(index) : index[n][k] \in 0..(Cols(x) - 1)

\* What running the index_sample node can give. The layer validates
\* neither the row counts nor the indices, so a read outside x is an
\* unchecked read: it may be caught, or deliver any element.
IndexSampleOutcomes(x, index) ==
    IF IndexSampleValid(x, index)
    THEN {[status |-> "ok",
           out |-> [n \in 1..Rows(index) |->
                      [k \in 1..Cols(index) |-> x[n][index[n][k] + 1]]]]}
    ELSE {[status |-> e, out |-> <<>>] : e \in {"ShapeError", "IndexOutOfRange"}}
         \cup
         {[status |-> "ok", out |-> o] :
            o \in {m \in [1..Rows(index) -> [1..Cols(index) -> 0..MaxVal]] :
                     \A n \in 1..Rows(index), k \in 1..Cols(index) :
                        (n <= Rows(x) /\ index[n][k] < Cols(x))
                            => m[n][k] = x[n][index[n][k] + 1]}}

\* index_sample builds the index_sample node, which then runs on the data
\* of its inputs
run_index_sample(x, index) ==
    /\ krun.op = "none"
    /\ LET ok   == index_sample_checks(x, index)
           node == index_sample_build(Graph, x, index).g.ops[Len(ops) + 1]
       IN  IF ~ok
           THEN krun' = [op |-> "index_sample", x |-> x, index |-> index,
                         status |-> "DtypeMismatch", out |-> <<>>]
           ELSE \E r \in IndexSampleOutcomes(node.inputs.X.data,
                                             node.inputs.Index.data) :
                  krun' = [op |-> "index_sample", x |-> x, index |-> index,
                           status |-> r.status, out |-> r.out]
    /\ UNCHANGED <<mode, vars, ops, call>>

DataNext ==
    \/ /\ krun.op = "none"
       /\ \E Condition \in DataTensors("BOOL"),
             X \in DataTensors("FP32") \cup DataTensors("INT32"),
             Y \in DataTensors("FP32") \cup DataTensors("INT32") :
               run_where(Condition, X, Y)
    \/ /\ krun.op = "none"
       /\ \E x \in [dtype : {"INT32"}, data : Matrices(0..MaxVal)],
             index \in [dtype : {"INT32", "FP32"}, data : Matrices(0..MaxLen)] :
               run_index_sample(x, index)

DataSpec == KernelInit /\ [][DataNext]_allvars

\* ================================================================= claims
\* A step of Spec that is a layer call.
IsCall == call = Idle /\ call'.op # "none"

LastOp == ops[Len(ops)]

\* C1: sort called without an axis argument builds an argsort node whose
\* axis attribute is 0, and whose descending attribute is false when
\* descending is not given either.
C1_SortDefaultAxisIsZero ==
    (call.op = "sort" /\ call.args.axis = <<>>) =>
        /\ LastOp.type = "argsort"
        /\ LastOp.attrs.axis = 0
        /\ (call.args.descending = <<>> => LastOp.attrs.descending = FALSE)

WhereBadDtype(a) ==
    \/ a.Condition.dtype # "BOOL"
    \/ a.X.dtype \notin {"FP32", "FP64", "INT32", "INT64"}
    \/ a.Y.dtype \notin {"FP32", "FP64", "INT32", "INT64"}

\* C3 as stated: in every mode, where fails with DtypeMismatch whenever
\* Condition is not boolean or X or Y has a dtype outside the four.
C3_WhereDtypeEveryMode ==
    (call.op = "where" /\ WhereBadDtype(call.args)) =>
        /\ call.status = "DtypeMismatch"
        /\ call.ret = <<>>

\* C3 amended: in static graph mode, where fails with DtypeMismatch
\* whenever Condition is not boolean or X or Y has a dtype outside the four,
\* and returns nothing.
C3_WhereDtypeStatic ==
    (call.op = "where" /\ mode = "static" /\ WhereBadDtype(call.args)) =>
        /\ call.status = "DtypeMismatch"
        /\ call.ret = <<>>

\* where in static mode has refused a Condition that is not boolean, with
\* X and Y of a supported dtype
C3_Witness ==
    /\ call.op = "where"
    /\ mode = "static"
    /\ call.args.Condition.dtype # "BOOL"
    /\ call.args.X.dtype = "FP32"
    /\ call.args.Y.dtype = "FP32"
    /\ call.status = "DtypeMismatch"

\* C4: index_sample gives no output for invalid inputs: ShapeError when the
\* row counts differ, IndexOutOfRange when an index is outside [0, C); for
\* valid inputs output[n][k] = x[n][index[n][k]].
C4_IndexSampleValidates ==
    (krun.op = "index_sample" /\ index_sample_checks(krun.x, krun.index)) =>
        LET x == krun.x.data
            index == krun.index.data
            outside == \E n \in 1..Rows(index), k \in 1..Cols(index) :
                          index[n][k] \notin 0..(Cols(x) - 1)
        IN  IF Rows(index) # Rows(x) THEN krun.status = "ShapeError"
            ELSE IF outside THEN krun.status = "IndexOutOfRange"
            ELSE /\ krun.status = "ok"
                 /\ \A n \in 1..Rows(index), k \in 1..Cols(index) :
                        krun.out[n][k] = x[n][index[n][k] + 1]

\* C5: a call of argmax, sort, where or index_sample that fails leaves the
\* program as it was: no Variable created, no node appended.
C5_FailedCallLeavesGraph ==
    [][(IsCall /\ call'.status # "ok") => (vars' = vars /\ ops' = ops)]_allvars

\* The axis the caller means: the given one, normalized, or the last one.
MeantAxis(axis, rank) ==
    IF axis = <<>> THEN rank - 1 ELSE NormalizeAxis(axis[1], rank)

\* The index argmax gave for fiber j, and the shape of its output.
ArgmaxShapeOk(out, keepdims, a, n) ==
    IF ~keepdims THEN Len(out) = n
    ELSE IF a = 0 THEN Len(out) = 1 /\ Len(out[1]) = n
    ELSE Len(out) = n /\ \A j \in 1..n : Len(out[j]) = 1

ArgmaxIndex(out, keepdims, a, j) ==
    IF ~keepdims THEN out[j] ELSE IF a = 0 THEN out[1][j] ELSE out[j][1]

\* C6: for every tensor and every valid axis, each index argmax returns
\* selects an element equal to the maximum of its fiber along that axis,
\* and it is the smallest index at which the maximum occurs.
C6_ArgmaxFirstMaximum ==
    (krun.op = "argmax" /\ MeantAxis(krun.axis, Rank(krun.T)) \in 0..(Rank(krun.T) - 1)) =>
        LET a == MeantAxis(krun.axis, Rank(krun.T))
            n == NumFibers(krun.T, a)
        IN  /\ krun.status = "ok"
            /\ ArgmaxShapeOk(krun.out, krun.keepdims, a, n)
            /\ \A j \in 1..n :
                  LET f == Fiber(krun.T, a, j)
                      i == ArgmaxIndex(krun.out, krun.keepdims, a, j) + 1
                  IN  /\ i \in 1..Len(f)
                      /\ \A k \in 1..Len(f) : f[k] <= f[i]
                      /\ \A k \in 1..(i - 1) : f[k] < f[i]

\* argmax over the default axis of a tensor with more columns than rows,
\* in a row whose maximum occurs twice
C6_Witness ==
    /\ krun.op = "argmax"
    /\ krun.axis = <<>>
    /\ krun.status = "ok"
    /\ Rows(krun.T) = 1
    /\ Cols(krun.T) = 2
    /\ krun.T[1][1] = krun.T[1][2]
    /\ krun.out = <<0>>

\* C7: for Condition, X and Y of identical shape, the decomposition
\* X * cast(Condition) + Y * cast(not Condition) gives at every position
\* the value of the direct selection, X[i] if Condition[i] else Y[i].
C7_DecompositionEqualsSelect ==
    (/\ krun.op = "where"
     /\ Len(krun.Condition.data) = Len(krun.X.data)
     /\ Len(krun.X.data) = Len(krun.Y.data)) =>
        WhereDecomp(krun.Condition.data, krun.X.data, krun.Y.data)
            = WhereSelect(krun.Condition.data, krun.X.data, krun.Y.data)

\* C8: after every call of sort, with out created by sort or supplied by
\* the caller, the sorted values it returns track gradients and the indices
\* it returns do not.
C8_SortGradientFlags ==
    call.op = "sort" =>
        /\ vars[call.ret[1]].stop_gradient = FALSE
        /\ vars[call.ret[2]].stop_gradient = TRUE

\* C9: where takes the direct selection branch exactly when Condition, X
\* and Y all have the same shape.
C9_WhereDirectIffSameShapes ==
    (call.op = "where" /\ call.path # "none") =>
        (call.path = "direct" <=>
            /\ call.args.Condition.shape = call.args.X.shape
            /\ call.args.X.shape = call.args.Y.shape)

\* Variable i had its stop_gradient assigned after creation, or changed,
\* in this step.
FlagTouched(i) ==
    \/ i <= Len(vars) /\ vars'[i].sg_sets # vars[i].sg_sets
    \/ i <= Len(vars) /\ vars'[i].stop_gradient # vars[i].stop_gradient
    \/ i > Len(vars) /\ vars'[i].sg_sets # 0

\* C10 as stated: in every operation the stop_gradient of a Variable is
\* fixed when it is created and never assigned afterwards, and no operation
\* changes the flag of a Variable of the caller.
C10_FlagNeverWritten ==
    [][IsCall => \A i \in 1..Len(vars') : ~FlagTouched(i)]_allvars

\* C10 amended: sort, where and index_sample fix the stop_gradient of each
\* output when it is created, never assign it afterwards and never change
\* the flag of a Variable of the caller; argmax assigns True, once, to the
\* flag of the one Variable it returns, after appending its node, whether it
\* created that Variable or the caller passed it as out.
C10_FlagWrittenOnlyByArgmax ==
    [][IsCall =>
          /\ \A i \in 1..Len(vars') :
                FlagTouched(i) =>
                    /\ call'.op = "argmax"
                    /\ call'.ret = <<i>>
          /\ (call'.op = "argmax" /\ call'.status = "ok") =>
                LET o == call'.ret[1]
                IN  /\ vars'[o].stop_gradient = TRUE
                    /\ vars'[o].sg_sets
                         = (IF o <= Len(vars) THEN vars[o].sg_sets ELSE 0) + 1]_allvars

\* argmax has returned the caller's out, whose flag it assigned
C10_Witness ==
    /\ call.op = "argmax"
    /\ call.status = "ok"
    /\ call.args.out # <<>>
    /\ vars[call.ret[1]].stop_gradient = TRUE
    /\ vars[call.ret[1]].sg_sets = 1

====
